---- MODULE Spec2Model ----
(***************************************************************************)
(* RooAddModel (roofitcore/src/RooAddModel.cxx): a sum of resolution       *)
(* models                                                                  *)
(*   c_1*MODEL_1 + ... + c_{n-1}*MODEL_{n-1} + (1 - sum c_i)*MODEL_n       *)
(* with its constructors and destructor, evaluate(), the two-pass          *)
(* negotiation of analytic integrals getAnalyticalIntegralWN() and their   *)
(* evaluation analyticalIntegralWN(), convolution(), basisCode() and       *)
(* checkDependents().                                                      *)
(*                                                                         *)
(* Double_t values are modelled by integers: the sums and products of the  *)
(* code are kept, floating-point rounding is not.                          *)
(***************************************************************************)
EXTENDS Integers, Sequences, FiniteSets, TLC

VARIABLES
  phase,            \* "new", "live", "ConfigurationError", "InvariantViolation", "crashed", "destroyed"
  _modelProxyList,  \* the component models, in list order
  _coefProxyList,   \* the coefficients, in list order
  x,                \* the convolution variable bound by the base-class initialiser
  _isCopy,          \* set by the constructors
  _basis,           \* the basis function, "none" when used as a plain PDF
  _basisCode,       \* RooResolutionModel::_basisCode
  _codeReg,         \* the registry of per-component code arrays
  _errorCount,      \* counter of coefficient-degeneration warnings
  op,               \* the member function that ran last
  ret,              \* what it returned
  allVars,          \* getAnalyticalIntegralWN: the requested variables
  analVarsIn,       \* getAnalyticalIntegralWN: the caller's analVars at the call
  analVars,         \* getAnalyticalIntegralWN: the caller's analVars at the return
  allAnalVars,      \* getAnalyticalIntegralWN: the local set after the first iteration
  subCode,          \* getAnalyticalIntegralWN: the local array of component codes
  queries,          \* number of component getAnalyticalIntegralWN calls made by the last call
  modelVal,         \* the component values read by the last evaluate / integral
  coefVal,          \* the coefficient values read by the last evaluate / integral
  warned,           \* the last call printed the coefficient-degeneration warning
  issuedFor,        \* history: the master codes returned, with their request and plan
  ctorArgs,         \* the lists the client passed to the constructor
  codeArg,          \* analyticalIntegralWN: the code it was called with
  regAtCall,        \* history: the registry when the last call was entered
  degenerate,       \* history: the evaluate() calls so far that found the last weight outside [0,1]
  errors,           \* number of error messages the last checkDependents() / convolution() printed
  depSet,           \* checkDependents: the set it was called with
  basisArg,         \* convolution / basisCode: the basis it was called with
  convCalls,        \* number of component convolution() calls made by the last convolution()
  parent,           \* the composite whose convolution() or copy built this one, "none" otherwise
  builtBy,          \* history: "ctor", "convolution" or "copy"
  dtorLog,          \* the steps of the destructor, in order
  normLog,          \* history: what getNorm and getNormSpecial returned last, and under which basis
  temps,            \* the temporaries the last negotiation or integral left allocated at its return
  objs,             \* the composites a client has built, in the order they were built
  freed             \* the component models that were deleted, in the order they were deleted

vars == <<phase, _modelProxyList, _coefProxyList, x, _isCopy, _basis, _basisCode,
          _codeReg, _errorCount, op, ret, allVars, analVarsIn, analVars, allAnalVars,
          subCode, queries, modelVal, coefVal, warned, issuedFor, ctorArgs, codeArg,
          regAtCall, degenerate, errors, depSet, basisArg, convCalls, parent, builtBy,
          dtorLog, normLog, temps, objs, freed>>

----------------------------------------------------------------------------
(* Bounds of the model *)

\* largest number of component models of a composite
MaxN == 3
\* largest number of plans the registry is let to hold
MaxReg == 2
\* largest number of composites a client builds
MaxObj == 4

\* the integration variables a caller may request
Vars == {"X", "Y"}
\* the convolution variables a component model may be built on
ConvVars == {"t", "u"}
\* the basis functions
Bases == {"b1", "b2"}
\* the outcomes of reading through a null proxy pointer
UBOutcomes == {"null", "crash"}

None == "none"

\* RooAbsPdf::_errorCount of a new instance: every instance has its own
\* counter, which starts at 0
InitialErrorCount == 0

----------------------------------------------------------------------------
(* The collaborators: component models and coefficients *)

\* What a component model of the given kind answers to
\* getAnalyticalIntegralWN(req, subAnalVars, normSet): its code and the
\* variables it puts in subAnalVars.
\*   "sep"    integrates X alone or Y alone (X first), never both
\*   "joint"  integrates X and Y jointly, neither alone
\*   "jointY" integrates X and Y jointly, or Y alone, not X alone
\*   "all"    integrates every non-empty subset
Advertise(kind, req) ==
  CASE kind = "sep" ->
         IF "X" \in req THEN [code |-> 2, vars |-> {"X"}]
         ELSE IF "Y" \in req THEN [code |-> 1, vars |-> {"Y"}]
         ELSE [code |-> 0, vars |-> {}]
    [] kind = "joint" ->
         IF {"X", "Y"} \subseteq req THEN [code |-> 2, vars |-> {"X", "Y"}]
         ELSE [code |-> 0, vars |-> {}]
    [] kind = "jointY" ->
         IF {"X", "Y"} \subseteq req THEN [code |-> 1, vars |-> {"X", "Y"}]
         ELSE IF "Y" \in req THEN [code |-> 2, vars |-> {"Y"}]
         ELSE [code |-> 0, vars |-> {}]
    [] OTHER ->
         IF {"X", "Y"} \subseteq req THEN [code |-> 3, vars |-> {"X", "Y"}]
         ELSE IF "X" \in req THEN [code |-> 1, vars |-> {"X"}]
         ELSE IF "Y" \in req THEN [code |-> 2, vars |-> {"Y"}]
         ELSE [code |-> 0, vars |-> {}]

Kinds == {"sep", "joint", "jointY", "all"}

\* A component model: its integration capability, its convolution variable,
\* the code it reports for each basis function, which object it is, the
\* variables it depends on, its current value, the basis it is the
\* convolution with and what its getNorm and its getNormSpecial return.
ModelOf(kind, cv) ==
  [kind |-> kind, convVar |-> cv, bcode |-> [b \in Bases |-> IF b = "b1" THEN 2 ELSE 0],
   id |-> 0, deps |-> {}, val |-> 1, basis |-> None, norm |-> 1, normSpecial |-> 1]

\* A coefficient: which object it is, the variables it depends on and its
\* current value.
CoefOf(id, deps, val) == [name |-> "coef", id |-> id, deps |-> deps, val |-> val]

TheCoef == CoefOf(0, {}, 0)

\* all sequences over S of the lengths in lens
SeqsOf(S, lens) == UNION {[1..n -> S] : n \in lens}

----------------------------------------------------------------------------
(* RooAddModel::RooAddModel(name, title, modelList, coefList) *)

\* a constructor that checks the sizes of the lists only
CtorOutcomeSizeOnly(modelList, coefList, ub) ==
  IF Len(modelList) = 0 /\ ub = "crash" THEN "crashed"
  ELSE IF Len(modelList) # Len(coefList) + 1 THEN "ConfigurationError"
  ELSE "live"

\* The base-class initialiser reads modelList.at(0)->convVar() before any
\* check: with an empty model list that is a read through a null pointer.
\* ub is what that read does.
CtorOutcome(modelList, coefList, ub) ==
  IF Len(modelList) = 0 /\ ub = "crash" THEN "crashed"
  ELSE IF Len(modelList) # Len(coefList) + 1 THEN "ConfigurationError"
  ELSE IF \E i \in 1..Len(modelList) : modelList[i].convVar # modelList[1].convVar
         THEN "ConfigurationError"
  ELSE "live"

Construct(modelList, coefList, ub) ==
  /\ phase = "new"
  /\ op' = "ctor"
  /\ phase' = CtorOutcome(modelList, coefList, ub)
  /\ IF phase' = "live"
       THEN /\ _modelProxyList' = modelList
            /\ _coefProxyList' = coefList
            /\ x' = modelList[1].convVar
       ELSE UNCHANGED <<_modelProxyList, _coefProxyList, x>>
  /\ ctorArgs' = [modelList |-> modelList, coefList |-> coefList]
  /\ builtBy' = IF phase' = "live" THEN "ctor" ELSE builtBy
  /\ UNCHANGED <<_isCopy, _basis, _basisCode, _codeReg, _errorCount, ret, allVars,
                 analVarsIn, analVars, allAnalVars, subCode, queries, modelVal,
                 coefVal, warned, issuedFor, codeArg, regAtCall, degenerate, errors,
                 depSet, basisArg, convCalls, parent, dtorLog>>
  /\ UNCHANGED <<normLog, temps, objs, freed>>

\* the state before the constructor has run
Unbuilt ==
  /\ phase = "new"
  /\ _modelProxyList = <<>>
  /\ _coefProxyList = <<>>
  /\ x = None
  /\ _isCopy = FALSE
  /\ _basis = None
  /\ _basisCode = 0
  /\ _codeReg = <<>>
  /\ _errorCount = InitialErrorCount
  /\ op = None
  /\ ret = 0
  /\ allVars = {}
  /\ analVarsIn = {}
  /\ analVars = {}
  /\ allAnalVars = {}
  /\ subCode = <<>>
  /\ queries = 0
  /\ modelVal = <<>>
  /\ coefVal = <<>>
  /\ warned = FALSE
  /\ issuedFor = <<>>
  /\ ctorArgs = [modelList |-> <<>>, coefList |-> <<>>]
  /\ codeArg = 0
  /\ regAtCall = <<>>
  /\ degenerate = 0
  /\ errors = 0
  /\ depSet = {}
  /\ basisArg = None
  /\ convCalls = 0
  /\ parent = None
  /\ builtBy = None
  /\ dtorLog = <<>>
  /\ normLog = [getNorm |-> <<>>, getNormSpecial |-> <<>>]
  /\ temps = {}
  /\ objs = <<>>
  /\ freed = <<>>

\* the model lists and coefficient lists a client may pass
CtorModelLists == SeqsOf({ModelOf("all", cv) : cv \in ConvVars}, 0..MaxN + 1)
CtorCoefLists == SeqsOf({TheCoef}, 0..MaxN + 1)

NextCtor ==
  \E modelList \in CtorModelLists, coefList \in CtorCoefLists, ub \in UBOutcomes :
    Construct(modelList, coefList, ub)

SpecCtor == Unbuilt /\ [][NextCtor]_vars

----------------------------------------------------------------------------
(* RooAddModel::evaluate() *)

\* the number of coefficient-degeneration warnings that are printed
WarnLimit == 10
\* the counter of warnings is followed up to this value
MaxErr == 12

\* the running sum over the coefficient/model pairs: value and lastCoef
\* after the pairs i..Len(cv)
RECURSIVE PairLoop(_, _, _, _, _)
PairLoop(mv, cv, i, value, lastCoef) ==
  IF i > Len(cv) THEN [value |-> value, lastCoef |-> lastCoef]
  ELSE PairLoop(mv, cv, i + 1, value + mv[i] * cv[i], lastCoef - cv[i])

\* a variant that keeps the last coefficient inside [0,1]
evaluateClamped(mv, cv) ==
  LET r == PairLoop(mv, cv, 1, 0, 1)
      w == IF r.lastCoef < 0 THEN 0 ELSE IF r.lastCoef > 1 THEN 1 ELSE r.lastCoef
  IN [value |-> r.value + mv[Len(cv) + 1] * w, lastCoef |-> w]

\* value and lastCoef of evaluate() for the component values mv and the
\* coefficient values cv
evaluate(mv, cv) ==
  LET r == PairLoop(mv, cv, 1, 0, 1)
  IN [value |-> r.value + mv[Len(cv) + 1] * r.lastCoef, lastCoef |-> r.lastCoef]

OutOfRange(lastCoef) == lastCoef < 0 \/ lastCoef > 1

\* a test that advances the counter on every call
WarnStepCountsEveryCall(lastCoef, count) ==
  [count |-> count + 1, warned |-> OutOfRange(lastCoef) /\ count + 1 <= WarnLimit]

\* (lastCoef<0.0 || lastCoef>1.0) && ++_errorCount<=10: the counter after the
\* test and whether the warning is printed
WarnStep(lastCoef, count) ==
  IF OutOfRange(lastCoef)
    THEN [count |-> count + 1, warned |-> count + 1 <= WarnLimit]
    ELSE [count |-> count, warned |-> FALSE]

(* the sum of f[1..n] *)
RECURSIVE SumTo(_, _)
SumTo(f, n) == IF n = 0 THEN 0 ELSE SumTo(f, n - 1) + f[n]

\* the calls so far whose coefficients left the last weight outside [0,1]
Degenerate(count, cv) ==
  IF OutOfRange(1 - SumTo(cv, Len(cv))) THEN count + 1 ELSE count

Evaluate(mv, cv) ==
  /\ phase = "live"
  /\ Len(mv) = Len(_modelProxyList)
  /\ Len(cv) = Len(_coefProxyList)
  /\ _errorCount < MaxErr
  /\ LET r == evaluate(mv, cv)
         w == WarnStep(r.lastCoef, _errorCount)
     IN /\ ret' = r.value
        /\ _errorCount' = w.count
        /\ warned' = w.warned
  /\ degenerate' = Degenerate(degenerate, cv)
  /\ op' = "evaluate"
  /\ modelVal' = mv
  /\ coefVal' = cv
  /\ UNCHANGED <<phase, _modelProxyList, _coefProxyList, x, _isCopy, _basis, _basisCode,
                 _codeReg, allVars, analVarsIn, analVars, allAnalVars, subCode, queries,
                 issuedFor, ctorArgs, codeArg, regAtCall, errors, depSet, basisArg,
                 convCalls, parent, builtBy, dtorLog>>
  /\ UNCHANGED <<normLog, temps, objs, freed>>

\* the values a component model and a coefficient may take
ModelVals == {1, 3}
CoefVals == {-1, 1, 2}
\* the coefficient values the integrals are taken at
IntCoefVals == {0, 2}

\* a composite of n models on one convolution variable, with n-1 coefficients
PlainModels == SeqsOf({ModelOf("all", "t")}, 1..MaxN)

\* C1: evaluate() returns sum_{i<N} c_i*m_i + (1 - sum_{i<N} c_i)*m_N for
\* every assignment of values, with the derived last weight 1 - sum c_i used
\* as it is, inside [0,1] or not.
C1_EvaluateIsWeightedSum ==
  op = "evaluate" =>
    LET N == Len(_modelProxyList)
        terms == [i \in 1..N - 1 |-> coefVal[i] * modelVal[i]]
    IN ret = SumTo(terms, N - 1) + (1 - SumTo(coefVal, N - 1)) * modelVal[N]

\* evaluate() has returned for three models whose coefficients sum to more
\* than 1, so that the last weight is negative
C1_Witness ==
  /\ op = "evaluate"
  /\ Len(_modelProxyList) = 3
  /\ coefVal = <<2, 1>>
  /\ modelVal = <<1, 3, 3>>
  /\ ret = -1

----------------------------------------------------------------------------
(* RooAICRegistry _codeReg: store() and retrieve() *)

NotFound == <<>>

\* store(codeList, size): the plan is appended; the index of its slot, from 0
store(reg, codes) == [reg |-> Append(reg, codes), index |-> Len(reg)]

\* retrieve(index): the plan in the slot, NotFound if the slot was never filled
retrieve(reg, index) == IF index + 1 \in 1..Len(reg) THEN reg[index + 1] ELSE NotFound

----------------------------------------------------------------------------
(* RooResolutionModel::changeBasis(basis), as convolution() calls it on the *)
(* composite it has just built, and RooAddModel::basisCode(name)            *)

\* 'first' is never cleared and 'code' is a Bool_t: the loop leaves in code
\* whether the last component's code is non-zero
basisCode(ms, name) == IF ms[Len(ms)].bcode[name] # 0 THEN 1 ELSE 0

\* changeBasis(basis): the basis is kept and _basisCode becomes the code the
\* composite reports for it
changeBasis(ms, basis) == [_basis |-> basis, _basisCode |-> basisCode(ms, basis)]

ChangeBasis(basis) ==
  /\ phase = "live"
  /\ op = "ctor"
  /\ _basis' = basis
  /\ _basisCode' = basisCode(_modelProxyList, basis)
  /\ op' = "changeBasis"
  /\ UNCHANGED <<phase, _modelProxyList, _coefProxyList, x, _isCopy, _codeReg,
                 _errorCount, ret, allVars, analVarsIn, analVars, allAnalVars, subCode,
                 queries, modelVal, coefVal, warned, issuedFor, ctorArgs, codeArg,
                 regAtCall, degenerate, errors, depSet, basisArg, convCalls, parent,
                 builtBy, dtorLog>>
  /\ UNCHANGED <<normLog, temps, objs, freed>>

----------------------------------------------------------------------------
(* RooAddModel::basisCode(name), called by a client *)

BasisCode(name) ==
  /\ phase = "live"
  /\ ret' = basisCode(_modelProxyList, name)
  /\ basisArg' = name
  /\ op' = "basisCode"
  /\ UNCHANGED <<phase, _modelProxyList, _coefProxyList, x, _isCopy, _basis, _basisCode,
                 _codeReg, _errorCount, allVars, analVarsIn, analVars, allAnalVars,
                 subCode, queries, modelVal, coefVal, warned, issuedFor, ctorArgs,
                 codeArg, regAtCall, degenerate, errors, depSet, convCalls, parent,
                 builtBy, dtorLog>>
  /\ UNCHANGED <<normLog, temps, objs, freed>>

\* the codes a component model may report for a basis, 0 when it does not
\* support it
BasisCodes == {0, 1, 2}
\* the component models with the codes they report
BasisModels == {[ModelOf("all", "t") EXCEPT !.bcode = bc] : bc \in [Bases -> BasisCodes]}

NextBasis ==
  \/ \E n \in 1..MaxN :
       \E modelList \in [1..n -> BasisModels] :
         Construct(modelList, [i \in 1..n - 1 |-> TheCoef], "null")
  \/ \E name \in Bases : BasisCode(name)

SpecBasis == Unbuilt /\ [][NextBasis]_vars

----------------------------------------------------------------------------
(* RooAddModel::getAnalyticalIntegralWN(allVars, analVars, normSet) *)

\* a first iteration that asks each component for the set pruned so far
RECURSIVE FirstIterationPruned(_, _, _, _)
FirstIterationPruned(ms, n, req, common) ==
  IF n > Len(ms) THEN common
  ELSE LET subAnalVars == Advertise(ms[n].kind, common).vars
       IN FirstIterationPruned(ms, n + 1, req,
                               common \ {arg \in req : arg \notin subAnalVars})

\* First iteration: every component from the n-th on is asked what it can
\* integrate of req; a variable of req missing from its answer is removed
\* from the common set.
RECURSIVE FirstIteration(_, _, _, _)
FirstIteration(ms, n, req, common) ==
  IF n > Len(ms) THEN common
  ELSE LET subAnalVars == Advertise(ms[n].kind, req).vars
       IN FirstIteration(ms, n + 1, req,
                         common \ {arg \in req : arg \notin subAnalVars})

\* a second iteration that asks with the original request
SecondIterationUnpruned(ms, req, common) ==
  [n \in 1..Len(ms) |-> Advertise(ms[n].kind, req).code]

\* Second iteration: every component is asked again, now for the common set;
\* subCode[n] is its code.
SecondIteration(ms, req, common) ==
  [n \in 1..Len(ms) |-> Advertise(ms[n].kind, common).code]

allOK(codes) == \A n \in 1..Len(codes) : codes[n] # 0

\* an ending that accepts the plan when some component has a code
FinishAnyOK(reg, codes, common, in) ==
  IF \A n \in 1..Len(codes) : codes[n] = 0
    THEN [ret |-> 0, reg |-> reg, analVars |-> in]
    ELSE [ret |-> store(reg, codes).index + 1, reg |-> store(reg, codes).reg,
          analVars |-> in \cup common]

\* an ending that returns the slot index as it is
FinishNoOffset(reg, codes, common, in) ==
  IF ~allOK(codes)
    THEN [ret |-> 0, reg |-> reg, analVars |-> in]
    ELSE [ret |-> store(reg, codes).index, reg |-> store(reg, codes).reg,
          analVars |-> in \cup common]

\* an ending that starts a new registry when the negotiation fails
FinishResetOnFailure(reg, codes, common, in) ==
  IF ~allOK(codes)
    THEN [ret |-> 0, reg |-> <<>>, analVars |-> in]
    ELSE [ret |-> store(reg, codes).index + 1, reg |-> store(reg, codes).reg,
          analVars |-> in \cup common]

\* The end of the function: nothing is stored unless every component gave
\* a code; otherwise the common set is added to the caller's analVars and the
\* master code is the slot index plus one.
Finish(reg, codes, common, in) ==
  IF ~allOK(codes)
    THEN [ret |-> 0, reg |-> reg, analVars |-> in]
    ELSE [ret |-> store(reg, codes).index + 1, reg |-> store(reg, codes).reg,
          analVars |-> in \cup common]

\* The temporaries that are still allocated at the return that follows the
\* second iteration: 'if (!allOK) return 0' leaves before the delete[] of
\* subCode and the delete of avIter.
Unreleased(codes) == IF ~allOK(codes) THEN {"avIter", "subCode"} ELSE {}

\* a guard that lets a convoluted composite negotiate as well
DisabledNever(code) == FALSE

\* analytical integrations are only supported in non-convoluted form
Disabled(code) == code # 0

\* The call: what it returns and leaves behind. ub1 and ub2 are what the
\* read through the null proxy does that ends the first and the second loop.
Negotiation(ms, code, reg, req, in, ub1, ub2) ==
  LET common == FirstIteration(ms, 1, req, req)
      codes == SecondIteration(ms, req, common)
      fin == Finish(reg, codes, common, in)
      base == [phase |-> "live", ret |-> 0, reg |-> reg, analVars |-> in,
               allAnalVars |-> {}, subCode |-> <<>>, queries |-> 0, temps |-> {}]
  IN IF Disabled(code) THEN base
     ELSE IF ub1 = "crash"
       THEN [base EXCEPT !.phase = "crashed", !.allAnalVars = common,
                         !.queries = Len(ms)]
     ELSE IF common = {}
       THEN [base EXCEPT !.allAnalVars = common, !.queries = Len(ms)]
     ELSE IF ub2 = "crash"
       THEN [base EXCEPT !.phase = "crashed", !.allAnalVars = common,
                         !.subCode = codes, !.queries = 2 * Len(ms)]
     ELSE [base EXCEPT !.ret = fin.ret, !.reg = fin.reg, !.analVars = fin.analVars,
                       !.allAnalVars = common, !.subCode = codes,
                       !.queries = 2 * Len(ms), !.temps = Unreleased(codes)]

Negotiate(req, in, ub1, ub2) ==
  /\ phase = "live"
  /\ LET r == Negotiation(_modelProxyList, _basisCode, _codeReg, req, in, ub1, ub2)
     IN /\ Len(r.reg) <= MaxReg
        /\ phase' = r.phase
        /\ ret' = r.ret
        /\ _codeReg' = r.reg
        /\ analVars' = r.analVars
        /\ allAnalVars' = r.allAnalVars
        /\ subCode' = r.subCode
        /\ queries' = r.queries
        /\ temps' = r.temps
        /\ issuedFor' = IF r.phase = "live" /\ r.ret # 0
                          THEN Append(issuedFor, [code |-> r.ret, req |-> req,
                                                  plan |-> r.subCode])
                          ELSE issuedFor
  /\ op' = "getAnalyticalIntegralWN"
  /\ allVars' = req
  /\ analVarsIn' = in
  /\ modelVal' = <<>>
  /\ coefVal' = <<>>
  /\ warned' = FALSE
  /\ codeArg' = 0
  /\ regAtCall' = _codeReg
  /\ UNCHANGED <<_modelProxyList, _coefProxyList, x, _isCopy, _basis, _basisCode,
                 _errorCount, ctorArgs, degenerate, errors, depSet, basisArg, convCalls,
                 parent, builtBy, dtorLog>>
  /\ UNCHANGED <<normLog, objs, freed>>

----------------------------------------------------------------------------
(* RooAddModel::analyticalIntegralWN(code, normSet) *)

\* What the n-th component model returns from analyticalIntegralWN(c, normSet)
ComponentIntegral(n, c) == 10 * n + c

\* the running sum over the coefficient/model pairs of the integral: the
\* i-th model is integrated with codes[i]
RECURSIVE IntegralLoop(_, _, _, _, _)
IntegralLoop(codes, cv, i, value, lastCoef) ==
  IF i > Len(cv) THEN [value |-> value, lastCoef |-> lastCoef]
  ELSE IntegralLoop(codes, cv, i + 1,
                    value + ComponentIntegral(i, codes[i]) * cv[i], lastCoef - cv[i])

\* a sum that hands the master code to every component
IntegralSumMasterCode(code, codes, cv) ==
  LET r == IntegralLoop([i \in 1..Len(codes) |-> code], cv, 1, 0, 1)
  IN [value |-> r.value + ComponentIntegral(Len(cv) + 1, code) * r.lastCoef,
      lastCoef |-> r.lastCoef]

\* a sum that never advances the index into the code array
IntegralSumFirstCode(code, codes, cv) ==
  LET r == IntegralLoop([i \in 1..Len(codes) |-> codes[1]], cv, 1, 0, 1)
  IN [value |-> r.value + ComponentIntegral(Len(cv) + 1, codes[1]) * r.lastCoef,
      lastCoef |-> r.lastCoef]

\* value and lastCoef of the integral for master code 'code', whose plan is
\* codes, and the coefficient values cv
IntegralSum(code, codes, cv) ==
  LET r == IntegralLoop(codes, cv, 1, 0, 1)
  IN [value |-> r.value + ComponentIntegral(Len(cv) + 1, codes[Len(cv) + 1]) * r.lastCoef,
      lastCoef |-> r.lastCoef]

\* a test that sends code 0 to the registry like any other code
IntegralFallsBackNever(code) == FALSE

\* if (code==0) return getVal()
IntegralFallsBack(code) == code = 0

\* RooAbsReal::getVal() without a normalisation set: the value of evaluate()
getVal(mv, cv) == evaluate(mv, cv)

\* a lookup that wraps the slot index around the filled slots
LookupWrapped(reg, code) ==
  IF Len(reg) = 0 THEN NotFound ELSE retrieve(reg, (code - 1) % Len(reg))

\* _codeReg.retrieve(code-1)
Lookup(reg, code) == retrieve(reg, code - 1)

\* The call. ub is what the read through the null proxy does that ends the
\* loop over the coefficients.
Integral(code, mv, cv, ub) ==
  /\ phase = "live"
  /\ Len(cv) = Len(_coefProxyList)
  /\ op' = "analyticalIntegralWN"
  /\ allVars' = {}
  /\ analVarsIn' = {}
  /\ analVars' = {}
  /\ allAnalVars' = {}
  /\ queries' = 0
  /\ codeArg' = code
  /\ regAtCall' = _codeReg
  /\ coefVal' = cv
  /\ IF IntegralFallsBack(code)
       THEN /\ Len(mv) = Len(_modelProxyList)
            /\ _errorCount < MaxErr
            /\ LET r == getVal(mv, cv)
                   w == WarnStep(r.lastCoef, _errorCount)
               IN /\ ret' = r.value
                  /\ _errorCount' = w.count
                  /\ warned' = w.warned
            /\ degenerate' = Degenerate(degenerate, cv)
            /\ modelVal' = mv
            /\ subCode' = <<>>
            /\ phase' = phase
       ELSE /\ modelVal' = <<>>
            /\ UNCHANGED <<_errorCount, degenerate>>
            /\ LET codes == Lookup(_codeReg, code)
               IN IF codes = NotFound
                    THEN /\ phase' = "InvariantViolation"
                         /\ subCode' = <<>>
                         /\ ret' = 0
                         /\ warned' = FALSE
                    ELSE /\ subCode' = codes
                         /\ IF ub = "crash"
                              THEN /\ phase' = "crashed"
                                   /\ ret' = 0
                                   /\ warned' = FALSE
                              ELSE LET r == IntegralSum(code, codes, cv)
                                   IN /\ phase' = phase
                                      /\ ret' = r.value
                                      /\ warned' = OutOfRange(r.lastCoef)
  /\ UNCHANGED <<_modelProxyList, _coefProxyList, x, _isCopy, _basis, _basisCode,
                 _codeReg, issuedFor, ctorArgs, errors, depSet, basisArg, convCalls,
                 parent, builtBy, dtorLog>>
  /\ temps' = {}
  /\ UNCHANGED <<normLog, objs, freed>>

----------------------------------------------------------------------------
(* A composite and its evaluations, through evaluate() and through the *)
(* integral with code 0                                                *)

NextEval ==
  \/ \E modelList \in PlainModels :
       Construct(modelList, [i \in 1..Len(modelList) - 1 |-> TheCoef], "null")
  \/ \E mv \in [1..Len(_modelProxyList) -> ModelVals],
          cv \in [1..Len(_coefProxyList) -> CoefVals] :
       Evaluate(mv, cv)
  \/ \E mv \in [1..Len(_modelProxyList) -> ModelVals],
          cv \in [1..Len(_coefProxyList) -> IntCoefVals] :
       Integral(0, mv, cv, "null")

SpecEval == Unbuilt /\ [][NextEval]_vars

----------------------------------------------------------------------------
(* A composite whose coefficients degenerate in evaluate() and in the *)
(* integral of a negotiated plan                                      *)

NextWarn ==
  \/ \E modelList \in PlainModels :
       Construct(modelList, [i \in 1..Len(modelList) - 1 |-> TheCoef], "null")
  \/ \E cv \in [1..Len(_coefProxyList) -> IntCoefVals] :
       Evaluate([i \in 1..Len(_modelProxyList) |-> 1], cv)
  \/ \E ub1 \in UBOutcomes, ub2 \in UBOutcomes : Negotiate({"X"}, {}, ub1, ub2)
  \/ \E code \in 1..MaxReg, cv \in [1..Len(_coefProxyList) -> IntCoefVals],
          ub \in UBOutcomes :
       Integral(code, <<>>, cv, ub)

SpecWarn == Unbuilt /\ [][NextWarn]_vars

----------------------------------------------------------------------------
(* A composite, its negotiations and its integrals *)

\* the analVars sets a caller passes in
CallerAnalVars == {{}, {"Y"}}
\* the composites: 1..MaxN models of any kind on one convolution variable
NegModels == SeqsOf({ModelOf(k, "t") : k \in Kinds}, 1..MaxN)

Init == Unbuilt

Next ==
  \/ \E modelList \in NegModels :
       Construct(modelList, [i \in 1..Len(modelList) - 1 |-> TheCoef], "null")
  \/ ChangeBasis("b1")
  \/ \E req \in SUBSET Vars, in \in CallerAnalVars, ub1 \in UBOutcomes, ub2 \in UBOutcomes :
       Negotiate(req, in, ub1, ub2)
  \/ \E code \in 1..MaxReg + 1, cv \in [1..Len(_coefProxyList) -> IntCoefVals],
          ub \in UBOutcomes :
       Integral(code, <<>>, cv, ub)

Spec == Init /\ [][Next]_vars

----------------------------------------------------------------------------
(* RooAddModel::checkDependents(set) *)

\* RooAbsArg::dependentOverlaps(set, testArg): the model and the coefficient
\* both depend on some variable of set
dependentOverlaps(model, set, coef) == model.deps \cap coef.deps \cap set # {}

\* a loop that leaves at the first pair found to overlap
RECURSIVE checkDependentsStopsAtFirst(_, _, _, _, _, _)
checkDependentsStopsAtFirst(ms, cs, set, i, r, n) ==
  IF i > Len(cs) \/ r THEN [ret |-> r, errors |-> n]
  ELSE IF dependentOverlaps(ms[i], set, cs[i])
         THEN checkDependentsStopsAtFirst(ms, cs, set, i + 1, TRUE, n + 1)
         ELSE checkDependentsStopsAtFirst(ms, cs, set, i + 1, r, n)

\* The loop over the coefficients from the i-th on, each with the model at
\* its position: what is returned and how many error messages are printed.
RECURSIVE checkDependents(_, _, _, _, _, _)
checkDependents(ms, cs, set, i, r, n) ==
  IF i > Len(cs) THEN [ret |-> r, errors |-> n]
  ELSE IF dependentOverlaps(ms[i], set, cs[i])
         THEN checkDependents(ms, cs, set, i + 1, TRUE, n + 1)
         ELSE checkDependents(ms, cs, set, i + 1, r, n)

CheckDependents(set) ==
  /\ phase = "live"
  /\ LET r == checkDependents(_modelProxyList, _coefProxyList, set, 1, FALSE, 0)
     IN /\ ret' = r.ret
        /\ errors' = r.errors
  /\ depSet' = set
  /\ op' = "checkDependents"
  /\ UNCHANGED <<phase, _modelProxyList, _coefProxyList, x, _isCopy, _basis, _basisCode,
                 _codeReg, _errorCount, allVars, analVarsIn, analVars, allAnalVars,
                 subCode, queries, modelVal, coefVal, warned, issuedFor, ctorArgs,
                 codeArg, regAtCall, degenerate, basisArg, convCalls, parent, builtBy,
                 dtorLog>>
  /\ UNCHANGED <<normLog, temps, objs, freed>>

\* the sets of variables a model or a coefficient may depend on
DepSets == {{}, {"X"}, {"X", "Y"}}
\* the models and the coefficients with their dependents
DepModels == {[ModelOf("all", "t") EXCEPT !.deps = d] : d \in DepSets}
DepCoefs == {CoefOf(0, d, 0) : d \in DepSets}

NextDep ==
  \/ \E n \in 1..MaxN :
       \E modelList \in [1..n -> DepModels], coefList \in [1..n - 1 -> DepCoefs] :
         Construct(modelList, coefList, "null")
  \/ \E set \in SUBSET Vars : CheckDependents(set)

SpecDep == Unbuilt /\ [][NextDep]_vars

----------------------------------------------------------------------------
(* RooAddModel::convolution(basis, owner), the copy constructor and the    *)
(* destructor. The variables describe the composite the client works with: *)
(* after a successful convolution() or a copy that is the new composite,   *)
(* and parent keeps the lists of the composite it was made from.           *)

\* basis->findServer(0): the primary variable of the basis function
BasisVar(basis) == IF basis = "b1" THEN "t" ELSE "u"

\* a test that accepts every basis
BasisMatchesAlways(basis, convVar) == TRUE

\* basis->findServer(0) == x.absArg()
BasisMatches(basis, convVar) == BasisVar(basis) = convVar

\* the value of a component's convolution with the basis, from the value of
\* the component
ConvolvedValue(v, basis) == 2 * v + 1

\* model->convolution(basis, owner) of a component model: a clone of it that
\* represents its convolution with the basis
ComponentConvolution(m, basis) ==
  [m EXCEPT !.basis = basis, !.val = ConvolvedValue(m.val, basis)]

\* lists that hold the component convolutions in reverse order
ConvolutionListsReversed(ms, cs, basis) ==
  [modelList |-> [i \in 1..Len(ms) |-> ComponentConvolution(ms[Len(ms) + 1 - i], basis)],
   coefList |-> cs]

\* the lists the new composite is constructed from: the convolution of each
\* component in list order, and the coefficients themselves in list order
ConvolutionLists(ms, cs, basis) ==
  [modelList |-> [i \in 1..Len(ms) |-> ComponentConvolution(ms[i], basis)],
   coefList |-> cs]

\* the lists of the composite the client works with
Lists == [modelList |-> _modelProxyList, coefList |-> _coefProxyList]

\* a composite that has a basis is not convolved again
Convolution(basis) ==
  /\ phase = "live"
  /\ _basis = None
  /\ op' = "convolution"
  /\ basisArg' = basis
  /\ IF ~BasisMatches(basis, x)
       THEN /\ ret' = 0
            /\ errors' = 1
            /\ convCalls' = 0
            /\ UNCHANGED <<phase, _modelProxyList, _coefProxyList, x, _isCopy, _basis,
                           _basisCode, _codeReg, _errorCount, issuedFor, ctorArgs,
                           degenerate, parent, builtBy>>
       ELSE LET lists == ConvolutionLists(_modelProxyList, _coefProxyList, basis)
                built == CtorOutcome(lists.modelList, lists.coefList, "null")
                based == changeBasis(lists.modelList, basis)
            IN /\ errors' = 0
               /\ convCalls' = Len(_modelProxyList)
               /\ ctorArgs' = lists
               /\ phase' = built
               /\ IF built = "live"
                    THEN /\ ret' = 1
                         /\ parent' = Lists
                         /\ _modelProxyList' = lists.modelList
                         /\ _coefProxyList' = lists.coefList
                         /\ x' = lists.modelList[1].convVar
                         /\ _isCopy' = FALSE
                         /\ _basis' = based._basis
                         /\ _basisCode' = based._basisCode
                         /\ _codeReg' = <<>>
                         /\ _errorCount' = InitialErrorCount
                         /\ degenerate' = 0
                         /\ issuedFor' = <<>>
                         /\ builtBy' = "convolution"
                    ELSE /\ ret' = 0
                         /\ UNCHANGED <<_modelProxyList, _coefProxyList, x, _isCopy,
                                        _basis, _basisCode, _codeReg, _errorCount,
                                        issuedFor, degenerate, parent, builtBy>>
  /\ UNCHANGED <<allVars, analVarsIn, analVars, allAnalVars, subCode, queries, modelVal,
                 coefVal, warned, codeArg, regAtCall, depSet, dtorLog>>
  /\ UNCHANGED <<normLog, temps, objs, freed>>

\* RooAddModel(other, name): the copy refers to the components and the
\* coefficients of the other; its registry is a new one
CopyConstruct ==
  /\ phase = "live"
  /\ builtBy # "copy"
  /\ op' = "copy"
  /\ _isCopy' = TRUE
  /\ parent' = Lists
  /\ _codeReg' = <<>>
  /\ _errorCount' = InitialErrorCount
  /\ degenerate' = 0
  /\ issuedFor' = <<>>
  /\ builtBy' = "copy"
  /\ UNCHANGED <<phase, _modelProxyList, _coefProxyList, x, _basis, _basisCode, ret,
                 allVars, analVarsIn, analVars, allAnalVars, subCode, queries, modelVal,
                 coefVal, warned, ctorArgs, codeArg, regAtCall, errors, depSet, basisArg,
                 convCalls, dtorLog>>
  /\ UNCHANGED <<normLog, temps, objs, freed>>

\* the proxies of a list, deleted in list order
DeleteProxies(kind, list) ==
  [i \in 1..Len(list) |-> [step |-> "proxy", kind |-> kind, id |-> list[i].id]]

\* a destructor of which every composite that is not a copy owns its components
destructorOwnsUnlessCopy(ms, cs, basis, isCopy) ==
  LET ownedList == IF ~isCopy THEN ms ELSE <<>>
  IN DeleteProxies("coef", cs) \o DeleteProxies("model", ms)
       \o [i \in 1..Len(ownedList) |->
             [step |-> "component", kind |-> "model", id |-> ownedList[i].id]]

\* ~RooAddModel(): the steps in order. ownedList is filled when the composite
\* has a basis and is not a copy, and deleted after the proxies.
destructor(ms, cs, basis, isCopy) ==
  LET ownedList == IF basis # None /\ ~isCopy THEN ms ELSE <<>>
  IN DeleteProxies("coef", cs) \o DeleteProxies("model", ms)
       \o [i \in 1..Len(ownedList) |->
             [step |-> "component", kind |-> "model", id |-> ownedList[i].id]]

Destroy ==
  /\ phase = "live"
  /\ phase' = "destroyed"
  /\ op' = "dtor"
  /\ dtorLog' = destructor(_modelProxyList, _coefProxyList, _basis, _isCopy)
  /\ UNCHANGED <<_modelProxyList, _coefProxyList, x, _isCopy, _basis, _basisCode,
                 _codeReg, _errorCount, ret, allVars, analVarsIn, analVars, allAnalVars,
                 subCode, queries, modelVal, coefVal, warned, issuedFor, ctorArgs,
                 codeArg, regAtCall, degenerate, errors, depSet, basisArg, convCalls,
                 parent, builtBy>>
  /\ UNCHANGED <<normLog, temps, objs, freed>>

\* the lists a client builds a composite from: the i-th model and the i-th
\* coefficient are objects of their own, each with its value
ConvModelLists(n) ==
  {[i \in 1..n |-> [ModelOf("all", cv[i]) EXCEPT !.id = i, !.val = mv[i]]] :
     cv \in [1..n -> ConvVars], mv \in [1..n -> ModelVals]}
ConvCoefLists(n) ==
  {[i \in 1..n |-> CoefOf(i, {}, c[i])] : c \in [1..n -> IntCoefVals]}

NextConv ==
  \/ \E n \in 1..MaxN :
       \E modelList \in ConvModelLists(n), coefList \in ConvCoefLists(n - 1) :
         Construct(modelList, coefList, "null")
  \/ \E basis \in Bases : Convolution(basis)
  \/ CopyConstruct
  \/ Evaluate([i \in 1..Len(_modelProxyList) |-> _modelProxyList[i].val],
              [i \in 1..Len(_coefProxyList) |-> _coefProxyList[i].val])
  \/ Destroy

SpecConv == Unbuilt /\ [][NextConv]_vars

----------------------------------------------------------------------------
(* RooAddModel::getNorm(nset) and RooAddModel::getNormSpecial(nset) *)

\* RooAbsPdf::getNorm(nset): the normalisation of the composite as a regular
\* PDF, a value of its own
AbsPdfGetNorm(ms, cs) == 100 + Len(ms)

\* the running sum over the coefficient/model pairs and the last model with
\* the remaining weight, for the component normalisations nv and the
\* coefficient values cv
NormSum(nv, cv) ==
  LET r == PairLoop(nv, cv, 1, 0, 1)
  IN [value |-> r.value + nv[Len(cv) + 1] * r.lastCoef, lastCoef |-> r.lastCoef]

\* getNorm: as a regular PDF without a basis, else the sum of the components'
\* getNorm
getNorm(basis, ms, cs) ==
  IF basis = None THEN [value |-> AbsPdfGetNorm(ms, cs), warned |-> FALSE]
  ELSE LET r == NormSum([i \in 1..Len(ms) |-> ms[i].norm],
                        [i \in 1..Len(cs) |-> cs[i].val])
       IN [value |-> r.value, warned |-> OutOfRange(r.lastCoef)]

\* a getNormSpecial that is a regular PDF of its own kind without a basis
getNormSpecialOwnPath(basis, ms, cs) ==
  IF basis = None THEN [value |-> AbsPdfGetNorm(ms, cs) + 1, warned |-> FALSE]
  ELSE LET r == NormSum([i \in 1..Len(ms) |-> ms[i].normSpecial],
                        [i \in 1..Len(cs) |-> cs[i].val])
       IN [value |-> r.value, warned |-> OutOfRange(r.lastCoef)]

\* getNormSpecial: as a regular PDF (RooAbsPdf::getNorm) without a basis, else
\* the sum of the components' getNormSpecial
getNormSpecial(basis, ms, cs) ==
  IF basis = None THEN [value |-> AbsPdfGetNorm(ms, cs), warned |-> FALSE]
  ELSE LET r == NormSum([i \in 1..Len(ms) |-> ms[i].normSpecial],
                        [i \in 1..Len(cs) |-> cs[i].val])
       IN [value |-> r.value, warned |-> OutOfRange(r.lastCoef)]

GetNorm ==
  /\ phase = "live"
  /\ LET r == getNorm(_basis, _modelProxyList, _coefProxyList)
     IN /\ ret' = r.value
        /\ warned' = r.warned
        /\ normLog' = [normLog EXCEPT !.getNorm = <<[ret |-> r.value, basis |-> _basis]>>]
  /\ op' = "getNorm"
  /\ UNCHANGED <<phase, _modelProxyList, _coefProxyList, x, _isCopy, _basis, _basisCode,
                 _codeReg, _errorCount, allVars, analVarsIn, analVars, allAnalVars,
                 subCode, queries, modelVal, coefVal, issuedFor, ctorArgs, codeArg,
                 regAtCall, degenerate, errors, depSet, basisArg, convCalls, parent,
                 builtBy, dtorLog, temps, objs, freed>>

GetNormSpecial ==
  /\ phase = "live"
  /\ LET r == getNormSpecial(_basis, _modelProxyList, _coefProxyList)
     IN /\ ret' = r.value
        /\ warned' = r.warned
        /\ normLog' = [normLog EXCEPT
                         !.getNormSpecial = <<[ret |-> r.value, basis |-> _basis]>>]
  /\ op' = "getNormSpecial"
  /\ UNCHANGED <<phase, _modelProxyList, _coefProxyList, x, _isCopy, _basis, _basisCode,
                 _codeReg, _errorCount, allVars, analVarsIn, analVars, allAnalVars,
                 subCode, queries, modelVal, coefVal, issuedFor, ctorArgs, codeArg,
                 regAtCall, degenerate, errors, depSet, basisArg, convCalls, parent,
                 builtBy, dtorLog, temps, objs, freed>>

\* what a component returns from getNorm and from getNormSpecial
NormPairs == {<<1, 1>>, <<2, 2>>, <<1, 2>>}
NormModels ==
  {[ModelOf("all", "t") EXCEPT !.norm = nn[1], !.normSpecial = nn[2]] : nn \in NormPairs}
NormCoefs == {CoefOf(0, {}, c) : c \in IntCoefVals}

NextNorm ==
  \/ \E n \in 1..MaxN :
       \E modelList \in [1..n -> NormModels], coefList \in [1..n - 1 -> NormCoefs] :
         Construct(modelList, coefList, "null")
  \/ ChangeBasis("b1")
  \/ GetNorm
  \/ GetNormSpecial

SpecNorm == Unbuilt /\ [][NextNorm]_vars

----------------------------------------------------------------------------
(* Composites of the same components in every order, with and without a *)
(* basis, and their negotiations                                         *)

\* the component models: what they integrate and whether they support b1
OrderModels ==
  {[ModelOf(k, "t") EXCEPT !.bcode = [b \in Bases |-> IF b = "b1" THEN c ELSE 0]] :
     k \in {"sep", "joint", "all"}, c \in {0, 2}}

NextOrder ==
  \/ \E n \in 1..MaxN :
       \E modelList \in [1..n -> OrderModels] :
         Construct(modelList, [i \in 1..n - 1 |-> TheCoef], "null")
  \/ ChangeBasis("b1")
  \/ \E req \in SUBSET Vars, ub1 \in UBOutcomes, ub2 \in UBOutcomes :
       Negotiate(req, {}, ub1, ub2)

SpecOrder == Unbuilt /\ [][NextOrder]_vars

----------------------------------------------------------------------------
(* Several composites at a time: a client constructs composites, copies    *)
(* them, convolves them and deletes them in any order. objs holds every    *)
(* composite that was built, freed the component models that were deleted. *)

\* the variables of the single composite the other sections follow
single == <<phase, _modelProxyList, _coefProxyList, x, _isCopy, _basis, _basisCode,
            _codeReg, _errorCount, op, ret, allVars, analVarsIn, analVars, allAnalVars,
            subCode, queries, modelVal, coefVal, warned, issuedFor, ctorArgs, codeArg,
            regAtCall, degenerate, errors, depSet, basisArg, convCalls, parent, builtBy,
            dtorLog, normLog, temps>>

Composite(modelList, coefList, isCopy, basis) ==
  [alive |-> TRUE, modelList |-> modelList, coefList |-> coefList, isCopy |-> isCopy,
   basis |-> basis]

RECURSIVE MaxOf(_)
MaxOf(S) == IF S = {} THEN 0
            ELSE LET e == CHOOSE e \in S : TRUE
                     rest == MaxOf(S \ {e})
                 IN IF e > rest THEN e ELSE rest

\* the first identity no component model has yet: a model the client makes
\* and a convolution a component makes are new objects
FreshId ==
  1 + MaxOf(UNION {{objs[o].modelList[i].id : i \in 1..Len(objs[o].modelList)} :
                     o \in 1..Len(objs)})

\* the objects of a list get the identities from 'from' on
Renumber(list, from) == [i \in 1..Len(list) |-> [list[i] EXCEPT !.id = from + i - 1]]

\* RooAddModel(name, title, modelList, coefList) from n new models
Ctor(n) ==
  /\ Len(objs) < MaxObj
  /\ LET modelList == Renumber([i \in 1..n |-> ModelOf("all", "t")], FreshId)
         coefList == [i \in 1..n - 1 |-> CoefOf(i, {}, 0)]
     IN /\ CtorOutcome(modelList, coefList, "null") = "live"
        /\ objs' = Append(objs, Composite(modelList, coefList, FALSE, None))
  /\ UNCHANGED freed
  /\ UNCHANGED single

\* RooAddModel(other, name): the copy refers to the component models of other
CopyCtor(o) ==
  /\ Len(objs) < MaxObj
  /\ objs[o].alive
  /\ objs' = Append(objs, Composite(objs[o].modelList, objs[o].coefList, TRUE,
                                     objs[o].basis))
  /\ UNCHANGED freed
  /\ UNCHANGED single

\* objs[o].convolution(basis, owner): null for a basis on another variable,
\* else a new composite of new component convolutions, with the basis
ConvolutionOf(o, basis) ==
  /\ Len(objs) < MaxObj
  /\ objs[o].alive
  /\ objs[o].basis = None
  /\ IF ~BasisMatches(basis, objs[o].modelList[1].convVar)
       THEN UNCHANGED objs
       ELSE LET lists == ConvolutionLists(objs[o].modelList, objs[o].coefList, basis)
                modelList == Renumber(lists.modelList, FreshId)
            IN /\ CtorOutcome(modelList, lists.coefList, "null") = "live"
               /\ objs' = Append(objs, Composite(modelList, lists.coefList, FALSE,
                                                  changeBasis(modelList, basis)._basis))
  /\ UNCHANGED freed
  /\ UNCHANGED single

\* delete objs[o]: the destructor deletes the components it owns
Dtor(o) ==
  /\ objs[o].alive
  /\ objs' = [objs EXCEPT ![o].alive = FALSE]
  /\ LET steps == destructor(objs[o].modelList, objs[o].coefList, objs[o].basis,
                             objs[o].isCopy)
         deleted == SelectSeq(steps, LAMBDA st : st.step = "component")
     IN freed' = freed \o [k \in 1..Len(deleted) |-> deleted[k].id]
  /\ UNCHANGED single

NextLife ==
  \/ \E n \in 1..MaxN : Ctor(n)
  \/ \E o \in 1..Len(objs) : CopyCtor(o)
  \/ \E o \in 1..Len(objs), basis \in Bases : ConvolutionOf(o, basis)
  \/ \E o \in 1..Len(objs) : Dtor(o)

SpecLife == Unbuilt /\ [][NextLife]_vars

----------------------------------------------------------------------------
(* The constructor's checks *)

SameConvVar(modelList) ==
  \A i \in 1..Len(modelList) : modelList[i].convVar = modelList[1].convVar

\* C2: constructing from a model list and a coefficient list with
\* len(models) # len(coefficients) + 1 always ends in a ConfigurationError and
\* never leaves a usable instance; with len(models) = len(coefficients) + 1
\* and models on one convolution variable the construction succeeds and the
\* instance holds the two lists.
C2_SizeMismatchIsConfigurationError ==
  op = "ctor" =>
    LET nm == Len(ctorArgs.modelList)
        nc == Len(ctorArgs.coefList)
    IN /\ nm # nc + 1 => phase = "ConfigurationError"
       /\ (nm = nc + 1 /\ SameConvVar(ctorArgs.modelList)) =>
            /\ phase = "live"
            /\ _modelProxyList = ctorArgs.modelList
            /\ _coefProxyList = ctorArgs.coefList

----------------------------------------------------------------------------
(* The negotiation of analytic integrals *)

\* the last call was getAnalyticalIntegralWN on a non-convoluted composite
NegotiatedPlain == op = "getAnalyticalIntegralWN" /\ _basisCode = 0

\* the set the i-th component reports for the request req
Reported(i, req) == Advertise(_modelProxyList[i].kind, req).vars

\* the code the i-th component returns for the request req
CodeFor(i, req) == Advertise(_modelProxyList[i].kind, req).code

Components == 1..Len(_modelProxyList)

\* the call returned without storing a plan or touching the caller's set
FailedCleanly == ret = 0 /\ _codeReg = regAtCall /\ analVars = analVarsIn

\* C3: with _basisCode = 0 the set held after the first iteration is the
\* request intersected with what every component reports for the full
\* request; it is a subset of the request, and when it is empty the call
\* returns 0 and stores nothing.
C3_FirstIterationIsIntersection ==
  NegotiatedPlain =>
    /\ allAnalVars = {v \in allVars : \A i \in Components : v \in Reported(i, allVars)}
    /\ allAnalVars \subseteq allVars
    /\ (allAnalVars = {} /\ phase = "live") => FailedCleanly

\* the first iteration has pruned {X,Y} to {X} for a component that
\* integrates one variable at a time and one that integrates only {X,Y}, and
\* the call returned
C3_Witness ==
  /\ NegotiatedPlain
  /\ phase = "live"
  /\ Len(_modelProxyList) = 2
  /\ _modelProxyList[1].kind = "sep"
  /\ _modelProxyList[2].kind = "joint"
  /\ allVars = {"X", "Y"}
  /\ allAnalVars = {"X"}

\* C4: when in the second iteration one component returns code 0 for the
\* pruned set, the call returns 0, stores no plan and adds nothing to the
\* caller's analVars, whatever the other components return.
C4_OneZeroCodeFailsAll ==
  (NegotiatedPlain /\ phase = "live" /\ allAnalVars # {}
     /\ \E i \in Components : CodeFor(i, allAnalVars) = 0)
    => FailedCleanly

\* the second iteration found code 0 for one of three components and a
\* non-zero code for the two others, with a plan already in the registry
C4_Witness ==
  /\ NegotiatedPlain
  /\ phase = "live"
  /\ allAnalVars = {"X"}
  /\ subCode = <<1, 0, 2>>
  /\ Len(_codeReg) = 1
  /\ analVarsIn = {"Y"}
  /\ ret = 0

\* component a integrates {X,Y} jointly but not X alone
JointNotX(a) == Reported(a, {"X", "Y"}) = {"X", "Y"} /\ CodeFor(a, {"X"}) = 0

\* component b integrates X alone
XAlone(b) == CodeFor(b, {"X"}) # 0

\* the case of C5: {X,Y} was requested of a composite with such an A and B
MonotonicityCase ==
  /\ NegotiatedPlain
  /\ allVars = {"X", "Y"}
  /\ \E a, b \in Components : JointNotX(a) /\ XAlone(b)

\* C5 as first stated: in that case the first iteration prunes to at most
\* {Y}, and if A cannot integrate {Y} alone either the call returns 0.
C5_PrunesToAtMostY ==
  MonotonicityCase =>
    /\ allAnalVars \subseteq {"Y"}
    /\ (phase = "live" /\ \E a \in Components : JointNotX(a) /\ CodeFor(a, {"Y"}) = 0)
         => ret = 0

\* C5, amended: in that case the first iteration prunes to the intersection
\* of what the components report for {X,Y}, which is {X} when A and B are the
\* only components and B reports X alone; if the second iteration then finds
\* that A cannot integrate the pruned set, the call returns 0, stores no plan
\* and grants nothing.
C5_PrunesToIntersectionThenFails ==
  MonotonicityCase =>
    /\ allAnalVars = {v \in allVars : \A i \in Components : v \in Reported(i, allVars)}
    /\ (Len(_modelProxyList) = 2 /\ \E b \in Components : Reported(b, allVars) = {"X"})
         => allAnalVars = {"X"}
    /\ (phase = "live" /\ allAnalVars # {}
          /\ \E a \in Components : JointNotX(a) /\ CodeFor(a, allAnalVars) = 0)
         => FailedCleanly

\* A integrates only {X,Y}, B reports X alone: {X,Y} was pruned to {X}, A
\* returned 0 for it and the call returned 0
C5_Witness ==
  /\ MonotonicityCase
  /\ phase = "live"
  /\ Len(_modelProxyList) = 2
  /\ _modelProxyList[1].kind = "joint"
  /\ _modelProxyList[2].kind = "sep"
  /\ allAnalVars = {"X"}
  /\ subCode = <<0, 2>>
  /\ ret = 0

\* the codes the components return for the pruned set, in component order
PlanFor(req) == [i \in Components |-> CodeFor(i, req)]

\* C6: when the first iteration leaves a non-empty set and every component
\* returns a non-zero code for it, the call stores the plan, returns the
\* index of its slot plus one (never 0), adds the pruned set to the caller's
\* analVars, and retrieve(master code - 1) is the array of the N codes of the
\* second iteration in component order.
C6_SuccessStoresPlan ==
  (NegotiatedPlain /\ phase = "live" /\ allAnalVars # {}
     /\ \A i \in Components : CodeFor(i, allAnalVars) # 0)
    => /\ ret = Len(regAtCall) + 1
       /\ ret # 0
       /\ Len(_codeReg) = Len(regAtCall) + 1
       /\ analVars = analVarsIn \cup allAnalVars
       /\ retrieve(_codeReg, ret - 1) = PlanFor(allAnalVars)
       /\ Len(retrieve(_codeReg, ret - 1)) = Len(_modelProxyList)

\* a second plan, of three different codes, has been stored for {X,Y}
C6_Witness ==
  /\ NegotiatedPlain
  /\ phase = "live"
  /\ allVars = {"X", "Y"}
  /\ allAnalVars = {"X", "Y"}
  /\ ret = 2
  /\ retrieve(_codeReg, 1) = <<1, 3, 2>>
  /\ analVars = {"X", "Y"}

\* C7: every master code returned so far retrieves the code array it
\* retrieved when it was returned, after any later call, successful or not.
C7_RegistryAppendOnly ==
  \A k \in 1..Len(issuedFor) :
    retrieve(_codeReg, issuedFor[k].code - 1) = issuedFor[k].plan

\* two plans were stored and a later negotiation has failed in its second
\* iteration
C7_Witness ==
  /\ Len(issuedFor) = 2
  /\ issuedFor[1].code # issuedFor[2].code
  /\ NegotiatedPlain
  /\ phase = "live"
  /\ allAnalVars # {}
  /\ ret = 0

\* C8: requesting the same set twice returns two master codes whose plans
\* are identical, possibly in two slots, and the integral is the same under
\* either code: a request that was granted before is granted again, the
\* plans retrieved under the two codes are equal, and an integral returned
\* for one code is the integral of the other.
C8_NegotiationIdempotent ==
  /\ \A j, k \in 1..Len(issuedFor) :
       issuedFor[j].req = issuedFor[k].req =>
         retrieve(_codeReg, issuedFor[j].code - 1) = retrieve(_codeReg, issuedFor[k].code - 1)
  /\ (NegotiatedPlain /\ phase = "live" /\ ret = 0) =>
       \A k \in 1..Len(issuedFor) : issuedFor[k].req # allVars
  /\ (op = "analyticalIntegralWN" /\ phase = "live" /\ codeArg # 0) =>
       \A j, k \in 1..Len(issuedFor) :
         (issuedFor[j].code = codeArg /\ issuedFor[k].req = issuedFor[j].req) =>
           ret = IntegralSum(issuedFor[k].code,
                             retrieve(_codeReg, issuedFor[k].code - 1), coefVal).value

\* {X,Y} was granted twice, in slots 1 and 2, and the integral was taken
\* under the second code
C8_Witness ==
  /\ Len(issuedFor) = 2
  /\ issuedFor[1].req = {"X", "Y"}
  /\ issuedFor[2].req = {"X", "Y"}
  /\ issuedFor[1].code # issuedFor[2].code
  /\ op = "analyticalIntegralWN"
  /\ phase = "live"
  /\ codeArg = 2
  /\ Len(_modelProxyList) = 3
  /\ coefVal = <<2, 2>>

\* C9: with _basisCode # 0 the call returns 0 for every request without
\* asking any component, and leaves the registry and the caller's analVars
\* as they were.
C9_ConvolutedNeverNegotiates ==
  (op = "getAnalyticalIntegralWN" /\ _basisCode # 0) =>
    /\ phase = "live"
    /\ queries = 0
    /\ FailedCleanly

\* a convoluted composite whose components integrate every set was asked
\* for {X,Y} by a caller whose analVars held Y
C9_Witness ==
  /\ op = "getAnalyticalIntegralWN"
  /\ _basisCode # 0
  /\ _basis = "b1"
  /\ \A i \in Components : _modelProxyList[i].kind = "all"
  /\ Len(_modelProxyList) = 2
  /\ allVars = {"X", "Y"}
  /\ analVarsIn = {"Y"}
  /\ ret = 0

\* C10: for a master code k >= 1 returned by a negotiation, the integral is
\* sum_{i<N} c_i*I_i(code_i) + (1 - sum_{i<N} c_i)*I_N(code_N), code_j being
\* the j-th entry of the plan stored under k.
C10_IntegralIsWeightedSumOfPlan ==
  (op = "analyticalIntegralWN" /\ phase = "live" /\ codeArg >= 1) =>
    LET N == Len(_modelProxyList)
        plan == retrieve(_codeReg, codeArg - 1)
        terms == [i \in 1..N - 1 |-> coefVal[i] * ComponentIntegral(i, plan[i])]
    IN /\ \E k \in 1..Len(issuedFor) : issuedFor[k].code = codeArg
       /\ Len(plan) = N
       /\ ret = SumTo(terms, N - 1)
                + (1 - SumTo(coefVal, N - 1)) * ComponentIntegral(N, plan[N])

\* the integral of a plan of three different codes was taken with
\* coefficients 2 and 2, the last weight being -3
C10_Witness ==
  /\ op = "analyticalIntegralWN"
  /\ phase = "live"
  /\ codeArg = 1
  /\ retrieve(_codeReg, 0) = <<1, 3, 2>>
  /\ coefVal = <<2, 2>>
  /\ ret = 2 * 11 + 2 * 23 - 3 * 32

----------------------------------------------------------------------------
(* analyticalIntegralWN() with code 0 and with a code that was never issued *)

IntegralOfZero == op = "analyticalIntegralWN" /\ codeArg = 0

\* C11: integral(0, ctx) returns what evaluate() returns for the same
\* component and coefficient values, the weighted sum, in every state, and
\* reads no plan from the registry.
C11_CodeZeroIsEvaluate ==
  IntegralOfZero =>
    LET N == Len(_modelProxyList)
        terms == [i \in 1..N - 1 |-> coefVal[i] * modelVal[i]]
    IN /\ phase = "live"
       /\ ret = SumTo(terms, N - 1) + (1 - SumTo(coefVal, N - 1)) * modelVal[N]
       /\ subCode = <<>>
       /\ _codeReg = regAtCall

\* integral(0) has returned for two models while the registry is empty
C11_Witness ==
  /\ IntegralOfZero
  /\ _codeReg = <<>>
  /\ modelVal = <<1, 3>>
  /\ coefVal = <<2>>
  /\ ret = -1

NeverIssued(code) == \A k \in 1..Len(issuedFor) : issuedFor[k].code # code

\* C12: integral() with a non-zero master code that no negotiation of this
\* instance has returned ends in the fatal invariant violation; it never
\* returns a value.
C12_UnknownCodeIsInvariantViolation ==
  (op = "analyticalIntegralWN" /\ codeArg # 0 /\ NeverIssued(codeArg)) =>
    phase = "InvariantViolation"

\* integral(2) was called on an instance that has issued master code 1 only
C12_Witness ==
  /\ op = "analyticalIntegralWN"
  /\ codeArg = 2
  /\ Len(issuedFor) = 1
  /\ issuedFor[1].code = 1
  /\ phase = "InvariantViolation"

----------------------------------------------------------------------------
(* The rate limit of the coefficient-degeneration warning *)

EvaluateRan == op = "evaluate" \/ IntegralOfZero

\* C13: over the evaluate() calls of one instance the warning is printed by
\* the first 10 calls that find the last weight outside [0,1] and by none
\* from the 11th on; a call that finds it inside [0,1] prints nothing and is
\* not counted.
C13_FirstTenWarned ==
  EvaluateRan =>
    warned = (OutOfRange(1 - SumTo(coefVal, Len(coefVal))) /\ degenerate <= WarnLimit)

\* the 11th out-of-range evaluate() has returned silently
C13_Witness ==
  /\ op = "evaluate"
  /\ OutOfRange(1 - SumTo(coefVal, Len(coefVal)))
  /\ degenerate = WarnLimit + 1
  /\ ~warned

\* C14: the warning of the integral is the rate-limited one of evaluate():
\* once an instance has had its first 10 out-of-range occurrences, an
\* integral() call that finds the last weight outside [0,1] prints nothing
\* and still returns its value.
C14_IntegralWarningRateLimited ==
  (op = "analyticalIntegralWN" /\ codeArg # 0 /\ phase = "live"
     /\ degenerate >= WarnLimit) => ~warned

----------------------------------------------------------------------------
(* The dependents of the models and of their coefficients *)

\* the pairs (model_i, coef_i) that share a dependent within the set
Overlapping ==
  {i \in 1..Len(_coefProxyList) :
     \E v \in depSet : v \in _modelProxyList[i].deps /\ v \in _coefProxyList[i].deps}

\* C15: checkDependents returns true exactly when at least one pair
\* (model_i, coef_i), i < N, shares a dependent within the set, false when no
\* pair does; every pair is checked and one error message is printed per
\* violating pair.
C15_TrueIffSomePairOverlaps ==
  op = "checkDependents" =>
    /\ ret = (Overlapping # {})
    /\ errors = Cardinality(Overlapping)

\* both pairs of a composite of three models overlap and both are reported
C15_Witness ==
  /\ op = "checkDependents"
  /\ Len(_modelProxyList) = 3
  /\ Overlapping = {1, 2}
  /\ ret = TRUE
  /\ errors = 2

----------------------------------------------------------------------------
(* Convolution with a basis function *)

\* C16: convolution() with a basis whose primary variable is not the
\* convolution variable of the composite returns the null result and does not
\* crash: no component is asked for its convolution, no new composite is
\* built and the composite is left as it was.
C16_MismatchedBasisFails ==
  [][(op' = "convolution" /\ BasisVar(basisArg') # x) =>
       /\ ret' = 0
       /\ phase' = "live"
       /\ convCalls' = 0
       /\ errors' = 1
       /\ UNCHANGED <<_modelProxyList, _coefProxyList, x, _isCopy, _basis, _basisCode,
                      _codeReg, parent, builtBy>>]_vars

\* a composite of two models on t has refused the basis b2, whose primary
\* variable is u
C16_Witness ==
  /\ op = "convolution"
  /\ basisArg = "b2"
  /\ x = "t"
  /\ Len(_modelProxyList) = 2
  /\ builtBy = "ctor"
  /\ ret = 0
  /\ errors = 1

\* C17: a successful convolution() builds a new composite that is not a copy
\* and has the basis: its i-th model is the convolution of the i-th model of
\* the original with that basis, its coefficients are the coefficients of
\* the original in the same order, and its evaluate() is
\* sum_{i<N} c_i*conv(m_i) + (1 - sum c_i)*conv(m_N), which for two models is
\* c*conv(m1) + (1-c)*conv(m2).
C17_ConvolutionOfEachComponent ==
  /\ (op = "convolution" /\ ret # 0) =>
        /\ phase = "live"
        /\ ~_isCopy
        /\ _basis = basisArg
        /\ convCalls = Len(parent.modelList)
        /\ Len(_modelProxyList) = Len(parent.modelList)
        /\ \A i \in 1..Len(parent.modelList) :
             _modelProxyList[i] = ComponentConvolution(parent.modelList[i], basisArg)
        /\ _coefProxyList = parent.coefList
  /\ (op = "evaluate" /\ builtBy = "convolution") =>
        LET N == Len(parent.modelList)
            conv == [i \in 1..N |-> ConvolvedValue(parent.modelList[i].val, _basis)]
            c == [i \in 1..N - 1 |-> parent.coefList[i].val]
            terms == [i \in 1..N - 1 |-> c[i] * conv[i]]
        IN ret = SumTo(terms, N - 1) + (1 - SumTo(c, N - 1)) * conv[N]

\* the convolution of two models with values 1 and 3 and coefficient 2 has
\* been evaluated: 2*conv(1) + (1-2)*conv(3) = 2*3 - 7
C17_Witness ==
  /\ op = "evaluate"
  /\ builtBy = "convolution"
  /\ Len(parent.modelList) = 2
  /\ parent.modelList[1].val = 1
  /\ parent.modelList[2].val = 3
  /\ parent.coefList[1].val = 2
  /\ ret = -1

----------------------------------------------------------------------------
(* The destructor *)

\* the components the destructor has released
Released == {dtorLog[k].id : k \in {j \in 1..Len(dtorLog) : dtorLog[j].step = "component"}}

ComponentIds == {_modelProxyList[i].id : i \in 1..Len(_modelProxyList)}

\* no component is released before the last proxy is
ProxiesFirst ==
  \A j \in 1..Len(dtorLog), k \in 1..Len(dtorLog) :
    (dtorLog[j].step = "proxy" /\ dtorLog[k].step = "component") => j < k

\* C18 as it is stated: destroying a composite releases its component models
\* exactly when it is an owner, one built from raw lists or by convolution()
\* and not by copying, and only after its own references to them are
\* released; destroying a copy releases no component.
C18_ReleasesIffOwner ==
  phase = "destroyed" =>
    /\ (Released = ComponentIds) <=> builtBy \in {"ctor", "convolution"}
    /\ builtBy = "copy" => Released = {}
    /\ ProxiesFirst

\* C18, amended: destroying a composite releases its component models
\* exactly when it has a basis and is not a copy, which is the composite
\* convolution() built, and only after its own proxies are deleted; a
\* composite built from raw lists without a basis and a copy release none.
C18_ReleasesIffConvolutionOwner ==
  phase = "destroyed" =>
    /\ builtBy = "convolution" => Released = ComponentIds
    /\ builtBy \in {"ctor", "copy"} => Released = {}
    /\ ProxiesFirst

\* a composite of two convolutions has been destroyed and has released both,
\* after its three proxies
C18_Witness ==
  /\ phase = "destroyed"
  /\ builtBy = "convolution"
  /\ Len(dtorLog) = 5
  /\ Released = {1, 2}
  /\ dtorLog[3].step = "proxy"
  /\ dtorLog[4].step = "component"

----------------------------------------------------------------------------
(* The convolution variable of the components *)

MixedConvVars(modelList) ==
  \E i \in 1..Len(modelList), j \in 1..Len(modelList) :
    modelList[i].convVar # modelList[j].convVar

\* C20: the construction ends in a ConfigurationError whenever two of the
\* models passed report different convolution variables, so that the
\* components of every composite that was constructed, the one convolution()
\* builds included, share one convolution variable.
C20_OneConvolutionVariable ==
  /\ (op = "ctor" /\ MixedConvVars(ctorArgs.modelList)) => phase = "ConfigurationError"
  /\ phase = "live" =>
       /\ ~MixedConvVars(_modelProxyList)
       /\ \A i \in 1..Len(_modelProxyList) : _modelProxyList[i].convVar = x

\* three models were passed of which only the last is on another variable
C20_Witness ==
  /\ op = "ctor"
  /\ Len(ctorArgs.modelList) = 3
  /\ ctorArgs.modelList[1].convVar = "t"
  /\ ctorArgs.modelList[2].convVar = "t"
  /\ ctorArgs.modelList[3].convVar = "u"
  /\ phase = "ConfigurationError"

----------------------------------------------------------------------------
(* The basis code of the composite *)

\* the code the i-th component reports for the basis asked about
SubCode(i) == _modelProxyList[i].bcode[basisArg]

\* C19: for every basis name the basisCode of the composite is 0 or the one
\* value that every component reports; it is 0 when some component reports 0
\* or a code that differs from another component's.
C19_BasisCodeIsCommonCode ==
  op = "basisCode" =>
    /\ ret = 0 \/ \A i \in Components : SubCode(i) = ret
    /\ (\E i \in Components : SubCode(i) = 0) => ret = 0
    /\ (\E i \in Components, j \in Components : SubCode(i) # SubCode(j)) => ret = 0

----------------------------------------------------------------------------
(* The two normalisations *)

\* sum_{i<N} c_i*n_i + (1 - sum_{i<N} c_i)*n_N for the n_i the components
\* return, or the normalisation as a regular PDF without a basis
NormOf(basis, nv) ==
  LET N == Len(_modelProxyList)
      c == [i \in 1..N - 1 |-> _coefProxyList[i].val]
      terms == [i \in 1..N - 1 |-> c[i] * nv[i]]
  IN IF basis = None THEN AbsPdfGetNorm(_modelProxyList, _coefProxyList)
     ELSE SumTo(terms, N - 1) + (1 - SumTo(c, N - 1)) * nv[N]

ComponentNorms == [i \in 1..Len(_modelProxyList) |-> _modelProxyList[i].norm]
ComponentNormsSpecial == [i \in 1..Len(_modelProxyList) |-> _modelProxyList[i].normSpecial]

\* both functions have returned under the same basis
BothNormsTaken ==
  /\ Len(normLog.getNorm) = 1
  /\ Len(normLog.getNormSpecial) = 1
  /\ normLog.getNorm[1].basis = normLog.getNormSpecial[1].basis

\* C21: getNorm and getNormSpecial compute the same arithmetic: without a
\* basis each returns the normalisation of the regular PDF, with a basis each
\* returns sum_{i<N} c_i*norm_i + (1 - sum_{i<N} c_i)*norm_N over what the
\* components return from the same function; the two values are equal
\* whenever the two normalisations of every component are equal.
C21_SameArithmetic ==
  /\ op = "getNorm" => ret = NormOf(_basis, ComponentNorms)
  /\ op = "getNormSpecial" => ret = NormOf(_basis, ComponentNormsSpecial)
  /\ (BothNormsTaken /\ ComponentNorms = ComponentNormsSpecial) =>
        normLog.getNorm[1].ret = normLog.getNormSpecial[1].ret

\* both have returned 2*2 + (1-2)*1 = 3 for a composite with a basis, two
\* components whose two normalisations are equal and the coefficient 2
C21_Witness ==
  /\ BothNormsTaken
  /\ _basis = "b1"
  /\ normLog.getNorm[1].basis = "b1"
  /\ Len(_modelProxyList) = 2
  /\ ComponentNorms = <<2, 1>>
  /\ ComponentNormsSpecial = <<2, 1>>
  /\ _coefProxyList[1].val = 2
  /\ normLog.getNorm[1].ret = 3
  /\ normLog.getNormSpecial[1].ret = 3

----------------------------------------------------------------------------
(* The temporaries of getAnalyticalIntegralWN *)

\* C25: on every return of getAnalyticalIntegralWN (convoluted composite,
\* empty common set, failure of the second iteration, success) the variable
\* iterator and the array of component codes it allocated are released.
C25_TemporariesReleased ==
  (op = "getAnalyticalIntegralWN" /\ phase = "live") => temps = {}

----------------------------------------------------------------------------
(* The ends of the loops over the proxy lists *)

\* C23: each iteration of getAnalyticalIntegralWN and the loop over the
\* coefficients of analyticalIntegralWN end after every component (every
\* coefficient) was visited once, and read nothing past the last model or
\* the last coefficient, for every N >= 1, N = 1 without coefficients
\* included: no call ends in the read through the null proxy.
C23_LoopsStopAtLastElement ==
  /\ op = "getAnalyticalIntegralWN" =>
        /\ phase # "crashed"
        /\ queries \in {0, Len(_modelProxyList), 2 * Len(_modelProxyList)}
  /\ (op = "analyticalIntegralWN" /\ codeArg # 0 /\ ~NeverIssued(codeArg)) =>
        phase # "crashed"

----------------------------------------------------------------------------
(* The order of the components *)

\* the permutations of 1..n
Perms(n) == {p \in [1..n -> 1..n] : \A i \in 1..n, j \in 1..n : p[i] = p[j] => i = j}

\* the composite of the same components in the order p, built and given the
\* basis in the same way, negotiates the same request with the same outcome:
\* success or failure, the same analVars, and the plan in the order p
SameOutcomeInOrder(p) ==
  LET ms == [i \in 1..Len(_modelProxyList) |-> _modelProxyList[p[i]]]
      code == IF _basis = None THEN 0 ELSE changeBasis(ms, _basis)._basisCode
      r == Negotiation(ms, code, regAtCall, allVars, analVarsIn, "null", "null")
  IN /\ (r.ret = 0) = (ret = 0)
     /\ r.analVars = analVars
     /\ ret # 0 => r.subCode = [i \in 1..Len(ms) |-> subCode[p[i]]]

Negotiated == op = "getAnalyticalIntegralWN" /\ phase = "live"

\* C22: the outcome of getAnalyticalIntegralWN does not depend on the order
\* of the components: for every permutation of the component list the same
\* request has the same success or failure and the same granted variables,
\* and on success the stored plan is the permuted array of component codes.
C22_NegotiationOrderIndependent ==
  Negotiated => \A p \in Perms(Len(_modelProxyList)) : SameOutcomeInOrder(p)

\* the same, for the composites that have no basis
OrderIndependentWithoutBasis ==
  (Negotiated /\ _basis = None) =>
    \A p \in Perms(Len(_modelProxyList)) : SameOutcomeInOrder(p)

----------------------------------------------------------------------------
(* The lifetime of the component models *)

Freed == {freed[k] : k \in 1..Len(freed)}

\* the composites that are alive and refer to a component that was deleted
Dangling ==
  {o \in 1..Len(objs) :
     /\ objs[o].alive
     /\ \E i \in 1..Len(objs[o].modelList) : objs[o].modelList[i].id \in Freed}

\* C24: after every sequence of constructions, copies, convolutions and
\* destructions no composite that is alive refers to a component model that
\* was released, and no component is released twice; destroying a composite
\* that owns its convolutions while a copy of it is alive leaves the copy
\* without a reference to a released component.
C24_NoReleasedComponentInUse ==
  /\ Dangling = {}
  /\ \A j \in 1..Len(freed), k \in 1..Len(freed) : freed[j] = freed[k] => j = k

====
